---- MODULE Spec2Model ----
(***************************************************************************)
(* Pametni kalkulator (src/pametni_kalkulator.py): the safe expression     *)
(* evaluator (safe_eval, evaluate_expression) and the presentation layer   *)
(* that logs every submission (SmartCalcApp).                              *)
(*                                                                         *)
(* Host: CPython 3.8 - 3.13, where ast.parse builds ast.Constant nodes and *)
(* ast.Num is the deprecated alias whose isinstance test accepts a         *)
(* Constant holding an int, float or complex that is not a bool.           *)
(*                                                                         *)
(* Numbers: a Python number is <<type, re, im>>, type one of "bool",       *)
(* "int", "float", "complex", and re, im exact rationals <<n, d>>.  A      *)
(* float is modelled by the rational it approximates (rounding is not      *)
(* modelled); inputs whose intermediate values are not rationals within    *)
(* MaxAbs are left out of the input sets (InModelRange).                   *)
(***************************************************************************)
EXTENDS Integers, Sequences, FiniteSets, TLC

\* ------------------------------------------------------------------ bounds
MaxAbs == 64        \* numerators and denominators of modelled numbers
MaxNodes == 4       \* nodes of an enumerated syntax tree
MaxLen == 4         \* characters of an enumerated input string
MaxHist == 2        \* submissions logged in one run of the application
MaxClock == 1       \* the latest second datetime.now() reads in one run

\* the element of a singleton; TheOne({e(x) : x \in {v}}) is e of the value v
TheOne(S) == CHOOSE x \in S : TRUE

\* --------------------------------------------------------------- rationals
Abs(x) == IF x < 0 THEN -x ELSE x

RECURSIVE GCD(_, _)
GCD(a, b) == IF b = 0 THEN a ELSE GCD(b, a % b)

\* not a rational of the model: a component out of range or undefined
NaR == <<0, 0>>
IsNaR(q) == q[2] = 0

Norm(n, d) ==
    IF d = 0 THEN NaR
    ELSE LET g == GCD(Abs(n), Abs(d))
             s == IF d < 0 THEN -1 ELSE 1
             nn == (s * n) \div g
             dd == (s * d) \div g
         IN IF Abs(nn) > MaxAbs \/ dd > MaxAbs THEN NaR ELSE <<nn, dd>>

R(n) == Norm(n, 1)
RZero == <<0, 1>>
ROne == <<1, 1>>
RHalf == <<1, 2>>
RIsZero(q) == q[1] = 0 /\ q[2] = 1
RIsInt(q) == q[2] = 1
RNeg(a) == IF IsNaR(a) THEN NaR ELSE <<-a[1], a[2]>>
RAdd(a, b) ==
    IF IsNaR(a) \/ IsNaR(b) THEN NaR ELSE Norm(a[1] * b[2] + b[1] * a[2], a[2] * b[2])
RSub(a, b) == RAdd(a, RNeg(b))
RMul(a, b) ==
    IF IsNaR(a) \/ IsNaR(b) THEN NaR ELSE Norm(a[1] * b[1], a[2] * b[2])
RDiv(a, b) ==
    IF IsNaR(a) \/ IsNaR(b) \/ b[1] = 0 THEN NaR ELSE Norm(a[1] * b[2], a[2] * b[1])
RFloor(a) == IF IsNaR(a) THEN NaR ELSE <<a[1] \div a[2], 1>>
RLess(a, b) == a[1] * b[2] < b[1] * a[2]

RECURSIVE RPowNat(_, _)
RPowNat(a, k) == IF k = 0 THEN ROne ELSE RMul(a, RPowNat(a, k - 1))

\* a to the integer power k
RPowInt(a, k) ==
    IF k >= 0 THEN RPowNat(a, k) ELSE RDiv(ROne, RPowNat(a, -k))

IsSquare(n) == \E r \in 0..MaxAbs : r * r = n
SqrtOf(n) == CHOOSE r \in 0..MaxAbs : r * r = n
\* the exact square root of a >= 0, when it is rational
RSqrt(a) ==
    IF IsNaR(a) \/ a[1] < 0 \/ ~IsSquare(a[1]) \/ ~IsSquare(a[2]) THEN NaR
    ELSE <<SqrtOf(a[1]), SqrtOf(a[2])>>

\* ---------------------------------------------------------- Python numbers
Num(t, re, im) == <<t, re, im>>
PyInt(n) == Num("int", R(n), RZero)
PyFloat(q) == Num("float", q, RZero)
PyBool(b) == Num("bool", IF b THEN ROne ELSE RZero, RZero)
PyComplex(re, im) == Num("complex", re, im)
\* the values of the literals that are no numbers
PyStr == Num("str", RZero, RZero)
PyNone == Num("NoneType", RZero, RZero)
PyBytes == Num("bytes", RZero, RZero)

TypeOf(v) == v[1]
Re(v) == v[2]
Im(v) == v[3]
IsZero(v) == RIsZero(Re(v)) /\ RIsZero(Im(v))
OutOfRange(v) == IsNaR(Re(v)) \/ IsNaR(Im(v))

\* isinstance(value, (int, float)): bool is a subclass of int
IsIntOrFloatInstance(v) == TypeOf(v) \in {"int", "float", "bool"}

\* what a call of an operator function gives back
Returned(v) == [k |-> IF OutOfRange(v) THEN "range" ELSE "ok", v |-> v, exc |-> <<"", "">>]
Raised(cls, msg) == [k |-> "raise", v |-> PyNone, exc |-> <<cls, msg>>]
Unmodelled == [k |-> "range", v |-> PyNone, exc |-> <<"", "">>]

\* the type of the result of a binary arithmetic operation
Promote(a, b) ==
    IF TypeOf(a) = "complex" \/ TypeOf(b) = "complex" THEN "complex"
    ELSE IF TypeOf(a) = "float" \/ TypeOf(b) = "float" THEN "float"
    ELSE "int"

CMul(a, b) ==
    <<RSub(RMul(Re(a), Re(b)), RMul(Im(a), Im(b))),
      RAdd(RMul(Re(a), Im(b)), RMul(Im(a), Re(b)))>>

\* a / b for b # 0, as <<re, im>>
CDiv(a, b) ==
    IF RIsZero(Im(b)) THEN <<RDiv(Re(a), Re(b)), RDiv(Im(a), Re(b))>>
    ELSE LET den == RAdd(RMul(Re(b), Re(b)), RMul(Im(b), Im(b)))
         IN <<RDiv(RAdd(RMul(Re(a), Re(b)), RMul(Im(a), Im(b))), den),
              RDiv(RSub(RMul(Im(a), Re(b)), RMul(Re(a), Im(b))), den)>>

op_add(a, b) == Returned(Num(Promote(a, b), RAdd(Re(a), Re(b)), RAdd(Im(a), Im(b))))
op_sub(a, b) == Returned(Num(Promote(a, b), RSub(Re(a), Re(b)), RSub(Im(a), Im(b))))
op_mul(a, b) == LET c == CMul(a, b) IN Returned(Num(Promote(a, b), c[1], c[2]))

op_truediv(a, b) ==
    IF IsZero(b) THEN Raised("ZeroDivisionError", "division by zero")
    ELSE LET c == CDiv(a, b)
             t == IF Promote(a, b) = "complex" THEN "complex" ELSE "float"
         IN Returned(Num(t, c[1], c[2]))

op_mod(a, b) ==
    IF Promote(a, b) = "complex" THEN Raised("TypeError", "unsupported operand type(s) for %")
    ELSE IF IsZero(b) THEN Raised("ZeroDivisionError", "modulo by zero")
    ELSE Returned(Num(Promote(a, b),
                      RSub(Re(a), RMul(Re(b), RFloor(RDiv(Re(a), Re(b))))), RZero))

RECURSIVE CPowNat(_, _)
CPowNat(a, k) ==
    IF k = 0 THEN <<ROne, RZero>>
    ELSE LET p == CPowNat(a, k - 1) IN CMul(a, Num("complex", p[1], p[2]))

\* i to the power k, k >= 0
IPow(k) ==
    CASE k % 4 = 0 -> <<ROne, RZero>>
      [] k % 4 = 1 -> <<RZero, ROne>>
      [] k % 4 = 2 -> <<RNeg(ROne), RZero>>
      [] k % 4 = 3 -> <<RZero, RNeg(ROne)>>

op_pow(a, b) ==
    LET t == Promote(a, b)
        e == Re(b)
    IN IF t = "complex" THEN
           IF RIsZero(Im(b)) /\ RIsInt(e) THEN
               \* a real integer exponent: repeated multiplication
               IF IsZero(a) /\ e[1] < 0
               THEN Raised("ZeroDivisionError", "0.0 to a negative or complex power")
               ELSE LET p == CPowNat(a, Abs(e[1]))
                        q == IF e[1] >= 0 THEN p
                             ELSE CDiv(Num("complex", ROne, RZero), Num("complex", p[1], p[2]))
                    IN Returned(Num("complex", q[1], q[2]))
           ELSE IF IsZero(a) THEN
               IF RIsZero(Im(b)) /\ e[1] > 0 THEN Returned(Num("complex", RZero, RZero))
               ELSE Raised("ZeroDivisionError", "0.0 to a negative or complex power")
           ELSE Unmodelled
       ELSE IF t = "int" THEN
           IF e[1] >= 0 THEN Returned(Num("int", RPowInt(Re(a), e[1]), RZero))
           ELSE IF IsZero(a)
           THEN Raised("ZeroDivisionError", "0.0 cannot be raised to a negative power")
           ELSE Returned(Num("float", RPowInt(Re(a), e[1]), RZero))
       ELSE \* float
           IF RIsZero(e) THEN Returned(Num("float", ROne, RZero))
           ELSE IF IsZero(a) THEN
               IF e[1] < 0
               THEN Raised("ZeroDivisionError", "0.0 cannot be raised to a negative power")
               ELSE Returned(Num("float", RZero, RZero))
           ELSE IF RIsInt(e) THEN Returned(Num("float", RPowInt(Re(a), e[1]), RZero))
           ELSE IF e[2] # 2 THEN Unmodelled
           ELSE IF Re(a)[1] > 0 THEN Returned(Num("float", RPowInt(RSqrt(Re(a)), e[1]), RZero))
           ELSE \* a negative base and a fractional exponent: the complex principal value
               LET m == RPowInt(RSqrt(RNeg(Re(a))), e[1])
                   i == IPow(e[1] % 4)
               IN Returned(Num("complex", RMul(m, i[1]), RMul(m, i[2])))

UnaryType(a) == IF TypeOf(a) = "bool" THEN "int" ELSE TypeOf(a)
op_neg(a) == Returned(Num(UnaryType(a), RNeg(Re(a)), RNeg(Im(a))))
op_pos(a) == Returned(Num(UnaryType(a), Re(a), Im(a)))

\* ------------------------------------------------------------ syntax trees
\* ast nodes: <<"Expression", body>>, <<"Constant", value>>,
\* <<"BinOp", op, left, right>>, <<"UnaryOp", op, operand>>, and the nodes the
\* evaluator never looks into: <<"Name">>, <<"Call">>, <<"Tuple">>, <<"Compare">>.
Expression(body) == <<"Expression", body>>
Constant(v) == <<"Constant", v>>
BinOp(op, l, r) == <<"BinOp", op, l, r>>
UnaryOp(op, x) == <<"UnaryOp", op, x>>
Name == <<"Name">>
Call == <<"Call">>
TupleNode == <<"Tuple">>
Compare == <<"Compare">>
IntLit(n) == Constant(PyInt(n))

BinaryOperators == {"Add", "Sub", "Mult", "Div", "Pow", "Mod"}
UnaryOperators == {"USub", "UAdd"}
ALLOWED_OPERATORS == BinaryOperators \cup UnaryOperators

BadArity == Raised("TypeError", "wrong number of operands")
\* the table, had ast.Sub been mapped to a subtraction with its operands swapped
CallOperatorSwapped(op, args) ==
    CASE op = "Add" -> IF Len(args) = 2 THEN op_add(args[1], args[2]) ELSE BadArity
      [] op = "Sub" -> IF Len(args) = 2 THEN op_sub(args[2], args[1]) ELSE BadArity
      [] op = "Mult" -> IF Len(args) = 2 THEN op_mul(args[1], args[2]) ELSE BadArity
      [] op = "Div" -> IF Len(args) = 2 THEN op_truediv(args[1], args[2]) ELSE BadArity
      [] op = "Pow" -> IF Len(args) = 2 THEN op_pow(args[1], args[2]) ELSE BadArity
      [] op = "Mod" -> IF Len(args) = 2 THEN op_mod(args[1], args[2]) ELSE BadArity
      [] op = "USub" -> IF Len(args) = 1 THEN op_neg(args[1]) ELSE BadArity
      [] op = "UAdd" -> IF Len(args) = 1 THEN op_pos(args[1]) ELSE BadArity

\* ALLOWED_OPERATORS[type(node.op)](*args)
CallOperator(op, args) ==
    CASE op = "Add" -> IF Len(args) = 2 THEN op_add(args[1], args[2]) ELSE BadArity
      [] op = "Sub" -> IF Len(args) = 2 THEN op_sub(args[1], args[2]) ELSE BadArity
      [] op = "Mult" -> IF Len(args) = 2 THEN op_mul(args[1], args[2]) ELSE BadArity
      [] op = "Div" -> IF Len(args) = 2 THEN op_truediv(args[1], args[2]) ELSE BadArity
      [] op = "Pow" -> IF Len(args) = 2 THEN op_pow(args[1], args[2]) ELSE BadArity
      [] op = "Mod" -> IF Len(args) = 2 THEN op_mod(args[1], args[2]) ELSE BadArity
      [] op = "USub" -> IF Len(args) = 1 THEN op_neg(args[1]) ELSE BadArity
      [] op = "UAdd" -> IF Len(args) = 1 THEN op_pos(args[1]) ELSE BadArity

\* isinstance(node, ast.Num) on CPython 3.8 - 3.13
IsAstNum(node) ==
    node[1] = "Constant" /\ TypeOf(node[2]) \in {"int", "float", "complex"}

\* What safe_eval gives back: k is "ok" (v returned), "raise" (exc raised) or
\* "range" (a value the model does not represent); calls lists, in order, the
\* calls <<op, args>> of operator functions made on the way.
Ok(v, calls) == [k |-> "ok", v |-> v, exc |-> <<"", "">>, calls |-> calls]
Throw(cls, msg, calls) == [k |-> "raise", v |-> PyNone, exc |-> <<cls, msg>>, calls |-> calls]
\* r, reached after the calls made before it
After(calls, r) == [k |-> r.k, v |-> r.v, exc |-> r.exc, calls |-> calls \o r.calls]
\* ALLOWED_OPERATORS[type(node.op)](*args), reached after calls
Applied(op, args, calls) ==
    TheOne({[k |-> c.k, v |-> c.v, exc |-> c.exc, calls |-> calls \o <<<<op, args>>>>] :
            c \in {CallOperator(op, args)}})

RECURSIVE safe_eval(_)
safe_eval(node) ==
    IF node[1] = "Expression" THEN safe_eval(node[2])
    ELSE IF IsAstNum(node) THEN Ok(node[2], <<>>)
    ELSE IF node[1] = "Constant" THEN
        IF IsIntOrFloatInstance(node[2]) THEN Ok(node[2], <<>>)
        ELSE Throw("ValueError", "Dozvoljeni su samo brojevi.", <<>>)
    ELSE IF node[1] = "BinOp" THEN
        IF node[2] \notin ALLOWED_OPERATORS
        THEN Throw("ValueError", "Operator nije dozvoljen.", <<>>)
        ELSE TheOne({
            IF left.k # "ok" THEN left
            ELSE TheOne({
                IF right.k # "ok" THEN After(left.calls, right)
                ELSE Applied(node[2], <<left.v, right.v>>, left.calls \o right.calls) :
                right \in {safe_eval(node[4])}}) :
            left \in {safe_eval(node[3])}})
    ELSE IF node[1] = "UnaryOp" THEN
        IF node[2] \notin ALLOWED_OPERATORS
        THEN Throw("ValueError", "Operator nije dozvoljen.", <<>>)
        ELSE TheOne({
            IF operand.k # "ok" THEN operand
            ELSE Applied(node[2], <<operand.v>>, operand.calls) :
            operand \in {safe_eval(node[3])}})
    ELSE Throw("ValueError", "Nevazeci izraz.", <<>>)

\* ------------------------------------------------------ enumerated trees
LeafNodes ==
    {IntLit(0), IntLit(1), IntLit(2), Constant(PyFloat(RHalf)),
     Constant(PyBool(TRUE)), Constant(PyComplex(RZero, ROne)),
     Constant(PyStr), Constant(PyNone), Name, Call}
TreeUnaryOps == UnaryOperators \cup {"Invert"}
TreeBinaryOps == BinaryOperators \cup {"BitXor"}

\* TreesOfSize(n, 0, FALSE): the trees of n nodes that are a leaf or a UnaryOp;
\* TreesOfSize(n, i, FALSE) for i > 0: those that are a BinOp whose left operand
\* has i nodes; TreesOfSize(n, i, TRUE): the union of these up to i
RECURSIVE TreesOfSize(_, _, _)
TreesOfSize(n, i, upto) ==
    IF upto
    THEN TreesOfSize(n, i, FALSE) \cup (IF i > 0 THEN TreesOfSize(n, i - 1, TRUE) ELSE {})
    ELSE IF i = 0
    THEN IF n = 1 THEN LeafNodes
         ELSE {UnaryOp(o, x) : o \in TreeUnaryOps, x \in TreesOfSize(n - 1, n - 1, TRUE)}
    ELSE IF i > n - 2 THEN {}
    ELSE {BinOp(o, l, r) : o \in TreeBinaryOps, l \in TreesOfSize(i, i, TRUE),
                           r \in TreesOfSize(n - 1 - i, n - 1 - i, TRUE)}

\* the demo expression (5 + 3) * 2 - 4**2 and the expressions the
\* specification names
DemoTree ==
    BinOp("Sub", BinOp("Mult", BinOp("Add", IntLit(5), IntLit(3)), IntLit(2)),
                 BinOp("Pow", IntLit(4), IntLit(2)))
NestedZeroTree ==
    BinOp("Add", IntLit(1), BinOp("Div", IntLit(2), BinOp("Sub", IntLit(3), IntLit(3))))
SumThenNameTree == BinOp("Add", BinOp("Add", IntLit(1), IntLit(2)), Name)
ZeroDivThenNameTree == BinOp("Add", BinOp("Div", IntLit(1), IntLit(0)), Name)
NegRootTree == BinOp("Pow", UnaryOp("USub", IntLit(4)), Constant(PyFloat(RHalf)))
\* 4 ** (1 / 2) and (-4) ** (1 / 2)
RootOfFourTree == BinOp("Pow", IntLit(4), BinOp("Div", IntLit(1), IntLit(2)))
RootOfMinusFourTree ==
    BinOp("Pow", UnaryOp("USub", IntLit(4)), BinOp("Div", IntLit(1), IntLit(2)))
ExampleTrees ==
    {DemoTree, NestedZeroTree, SumThenNameTree, ZeroDivThenNameTree, NegRootTree,
     BinOp("Div", IntLit(5), IntLit(0)), BinOp("Mod", IntLit(5), IntLit(0)),
     BinOp("Pow", IntLit(2), IntLit(3)), BinOp("Add", IntLit(1), Compare),
     UnaryOp("USub", TupleNode), Constant(PyBytes), RootOfFourTree, RootOfMinusFourTree}

InModelRange(body) == safe_eval(body).k # "range"
\* the trees evaluate_expression is called on, in parts: part <<0, 0>> is the
\* examples, part <<n, i>> the representable trees of TreesOfSize(n, i, FALSE)
TreeParts == {<<0, 0>>} \cup ((1..MaxNodes) \X (0..MaxNodes))
TreeInputs(part) ==
    {Expression(b) : b \in {x \in (IF part[1] = 0 THEN ExampleTrees
                                    ELSE TreesOfSize(part[1], part[2], FALSE)) :
                              InModelRange(x)}}

\* ---------------------------------------------------------- input strings
\* A string is a sequence of one-character strings.  The characters the
\* tokenizer is modelled for:
Digits == {"0", "1", "2", "3", "4", "5", "6", "7", "8", "9"}
\* the letters of identifiers: the demo equation has the unknown x
Letters == {"n", "x"}
Symbols == {"+", "-", "*", "/", "%", "^", "(", ")", "="}
\* a character no token starts with; the alphabet has no quote and no #, so a
\* string containing it never tokenizes
NoToken == "?"
Space == " "
DigitValue ==
    ("0" :> 0) @@ ("1" :> 1) @@ ("2" :> 2) @@ ("3" :> 3) @@ ("4" :> 4) @@
    ("5" :> 5) @@ ("6" :> 6) @@ ("7" :> 7) @@ ("8" :> 8) @@ ("9" :> 9)

\* the replacement, had it been expr_str.replace('^', '**', 1)
ReplaceFirstCaret(s) ==
    IF \E i \in 1..Len(s) : s[i] = "^"
    THEN LET i == CHOOSE i \in 1..Len(s) : s[i] = "^" /\ \A j \in 1..(i - 1) : s[j] # "^"
         IN SubSeq(s, 1, i - 1) \o <<"*", "*">> \o SubSeq(s, i + 1, Len(s))
    ELSE s

\* expr_str.replace('^', '**')
RECURSIVE ReplaceCaret(_)
ReplaceCaret(s) ==
    IF s = <<>> THEN <<>>
    ELSE (IF Head(s) = "^" THEN <<"*", "*">> ELSE <<Head(s)>>) \o ReplaceCaret(Tail(s))

\* ---------------------------------------------------------------- ast.parse
\* tokens: <<"NUM", "", n>>, <<"NAME", "", 0>>, <<"OP", text, 0>>
NumTok(n) == <<"NUM", "", n>>
NameTok == <<"NAME", "", 0>>
OpTok(text) == <<"OP", text, 0>>
IsOp(toks, i, texts) == i <= Len(toks) /\ toks[i][1] = "OP" /\ toks[i][2] \in texts

\* the first position from i on whose character is outside class
RECURSIVE RunEnd(_, _, _)
RunEnd(s, i, class) ==
    IF i <= Len(s) /\ s[i] \in class THEN RunEnd(s, i + 1, class) ELSE i

\* the value of the digits s[i..j-1] in the base, or MaxAbs + 1 when it is
\* beyond MaxAbs
RECURSIVE PositionalValue(_, _, _, _, _)
PositionalValue(s, i, j, base, acc) ==
    IF acc > MaxAbs THEN MaxAbs + 1
    ELSE IF i >= j THEN acc
    ELSE PositionalValue(s, i + 1, j, base, base * acc + DigitValue[s[i]])

TokError == <<FALSE, <<>>>>
DoubledOp == ("*" :> "**") @@ ("/" :> "//") @@ ("=" :> "==")
RECURSIVE Tokenize(_, _, _)
Tokenize(s, i, toks) ==
    IF i > Len(s) THEN <<TRUE, toks>>
    ELSE IF s[i] = NoToken THEN TokError
    ELSE IF s[i] = Space THEN
        \* whitespace before the first token of the line is an indent
        IF i = 1 THEN TokError ELSE Tokenize(s, i + 1, toks)
    ELSE IF s[i] = "0" /\ i < Len(s) /\ s[i + 1] = "x" THEN
        \* a hexadecimal literal; the alphabet's hexadecimal digits are 0-9
        LET j == RunEnd(s, i + 2, Digits)
        IN IF j = i + 2 \/ (j <= Len(s) /\ s[j] \in Letters) THEN TokError
           ELSE Tokenize(s, j, Append(toks, NumTok(PositionalValue(s, i + 2, j, 16, 0))))
    ELSE IF s[i] \in Digits THEN
        LET j == RunEnd(s, i, Digits)
        IN IF s[i] = "0" /\ RunEnd(s, i, {"0"}) # j THEN TokError  \* leading zeros
           ELSE IF j <= Len(s) /\ s[j] \in Letters THEN TokError  \* invalid decimal literal
           ELSE Tokenize(s, j, Append(toks, NumTok(PositionalValue(s, i, j, 10, 0))))
    ELSE IF s[i] \in Letters THEN
        Tokenize(s, RunEnd(s, i, Letters \cup Digits), Append(toks, NameTok))
    ELSE IF s[i] \in {"*", "/", "="} /\ i < Len(s) /\ s[i + 1] = s[i] THEN
        Tokenize(s, i + 2, Append(toks, OpTok(DoubledOp[s[i]])))
    ELSE IF s[i] \in Symbols THEN Tokenize(s, i + 1, Append(toks, OpTok(s[i])))
    ELSE TokError

\* a parse: <<TRUE, tree, next position>> or NoParse
NoParse == <<FALSE, Name, 0>>
BinOpName ==
    ("+" :> "Add") @@ ("-" :> "Sub") @@ ("*" :> "Mult") @@ ("/" :> "Div") @@
    ("//" :> "FloorDiv") @@ ("%" :> "Mod") @@ ("**" :> "Pow") @@ ("^" :> "BitXor")
UnaryOpName == ("+" :> "UAdd") @@ ("-" :> "USub")

\* The grammar, one rule per case; left is the operand parsed so far, for the
\* rules that continue a left-associative chain.
RECURSIVE ParseRule(_, _, _, _)
ParseRule(rule, toks, i, left) ==
    CASE rule = "expression" ->
        \* comparison: bitwise_xor ('==' bitwise_xor)+ | bitwise_xor
        LET l == ParseRule("bitwise_xor", toks, i, Name)
        IN IF ~l[1] THEN NoParse
           ELSE IF IsOp(toks, l[3], {"=="}) THEN ParseRule("compare_rest", toks, l[3], Name)
           ELSE l
      [] rule = "compare_rest" ->
        IF IsOp(toks, i, {"=="}) THEN
            LET r == ParseRule("bitwise_xor", toks, i + 1, Name)
            IN IF r[1] THEN ParseRule("compare_rest", toks, r[3], Name) ELSE NoParse
        ELSE <<TRUE, Compare, i>>
      [] rule = "bitwise_xor" ->
        \* bitwise_xor: bitwise_xor '^' sum | sum
        LET l == ParseRule("sum", toks, i, Name)
        IN IF l[1] THEN ParseRule("xor_rest", toks, l[3], l[2]) ELSE NoParse
      [] rule = "xor_rest" ->
        IF IsOp(toks, i, {"^"}) THEN
            LET r == ParseRule("sum", toks, i + 1, Name)
            IN IF r[1] THEN ParseRule("xor_rest", toks, r[3], BinOp("BitXor", left, r[2]))
               ELSE NoParse
        ELSE <<TRUE, left, i>>
      [] rule = "sum" ->
        \* sum: sum ('+' | '-') term | term
        LET l == ParseRule("term", toks, i, Name)
        IN IF l[1] THEN ParseRule("sum_rest", toks, l[3], l[2]) ELSE NoParse
      [] rule = "sum_rest" ->
        IF IsOp(toks, i, {"+", "-"}) THEN
            LET r == ParseRule("term", toks, i + 1, Name)
            IN IF r[1]
               THEN ParseRule("sum_rest", toks, r[3], BinOp(BinOpName[toks[i][2]], left, r[2]))
               ELSE NoParse
        ELSE <<TRUE, left, i>>
      [] rule = "term" ->
        \* term: term ('*' | '/' | '//' | '%') factor | factor
        LET l == ParseRule("factor", toks, i, Name)
        IN IF l[1] THEN ParseRule("term_rest", toks, l[3], l[2]) ELSE NoParse
      [] rule = "term_rest" ->
        IF IsOp(toks, i, {"*", "/", "//", "%"}) THEN
            LET r == ParseRule("factor", toks, i + 1, Name)
            IN IF r[1]
               THEN ParseRule("term_rest", toks, r[3], BinOp(BinOpName[toks[i][2]], left, r[2]))
               ELSE NoParse
        ELSE <<TRUE, left, i>>
      [] rule = "factor" ->
        \* factor: ('+' | '-') factor | power
        IF IsOp(toks, i, {"+", "-"}) THEN
            LET x == ParseRule("factor", toks, i + 1, Name)
            IN IF x[1] THEN <<TRUE, UnaryOp(UnaryOpName[toks[i][2]], x[2]), x[3]>> ELSE NoParse
        ELSE ParseRule("power", toks, i, Name)
      [] rule = "power" ->
        \* power: primary '**' factor | primary
        LET b == ParseRule("primary", toks, i, Name)
        IN IF ~b[1] THEN NoParse
           ELSE IF IsOp(toks, b[3], {"**"}) THEN
               LET e == ParseRule("factor", toks, b[3] + 1, Name)
               IN IF e[1] THEN <<TRUE, BinOp("Pow", b[2], e[2]), e[3]>> ELSE NoParse
           ELSE b
      [] rule = "primary" ->
        \* primary: primary '(' [argument] ')' | atom
        LET a == ParseRule("atom", toks, i, Name)
        IN IF a[1] THEN ParseRule("trailers", toks, a[3], a[2]) ELSE NoParse
      [] rule = "trailers" ->
        \* the argument: an expression, '*' expression, '**' expression or
        \* NAME '=' expression (the alphabet has no comma)
        IF IsOp(toks, i, {"("}) THEN
            IF IsOp(toks, i + 1, {")"}) THEN ParseRule("trailers", toks, i + 2, Call)
            ELSE LET j == IF IsOp(toks, i + 1, {"*", "**"}) THEN i + 2
                          ELSE IF i + 1 <= Len(toks) /\ toks[i + 1][1] = "NAME"
                                  /\ IsOp(toks, i + 2, {"="}) THEN i + 3
                          ELSE i + 1
                     x == ParseRule("expression", toks, j, Name)
                 IN IF x[1] /\ IsOp(toks, x[3], {")"})
                    THEN ParseRule("trailers", toks, x[3] + 1, Call)
                    ELSE NoParse
        ELSE <<TRUE, left, i>>
      [] rule = "atom" ->
        \* atom: NAME | NUMBER | '(' ')' | '(' expression ')'
        IF i > Len(toks) THEN NoParse
        ELSE IF toks[i][1] = "NUM"
        THEN <<TRUE, Constant(Num("int", R(toks[i][3]), RZero)), i + 1>>
        ELSE IF toks[i][1] = "NAME" THEN <<TRUE, Name, i + 1>>
        ELSE IF IsOp(toks, i, {"("}) THEN
            IF IsOp(toks, i + 1, {")"}) THEN <<TRUE, TupleNode, i + 2>>
            ELSE LET x == ParseRule("expression", toks, i + 1, Name)
                 IN IF x[1] /\ IsOp(toks, x[3], {")"}) THEN <<TRUE, x[2], x[3] + 1>>
                    ELSE NoParse
        ELSE NoParse

\* ast.parse(expr_str, mode='eval'): the tree, or SyntaxError (every message
\* of the parser is modelled by "invalid syntax"); "range" for a literal
\* beyond MaxAbs
Parsed(t) == [k |-> "ok", tree |-> t, exc |-> <<"", "">>]
SyntaxError == [k |-> "raise", tree |-> Name, exc |-> <<"SyntaxError", "invalid syntax">>]
TooLong == [k |-> "range", tree |-> Name, exc |-> <<"", "">>]
ast_parse(s) ==
    TheOne({
        IF ~t[1] THEN SyntaxError
        ELSE IF \E i \in 1..Len(t[2]) : t[2][i][3] > MaxAbs THEN TooLong
        ELSE TheOne({
            IF p[1] /\ p[3] = Len(t[2]) + 1 THEN Parsed(Expression(p[2])) ELSE SyntaxError :
            p \in {ParseRule("expression", t[2], 1, Name)}}) :
        t \in {Tokenize(s, 1, <<>>)}})


\* ------------------------------------------------------ evaluate_expression
\* The outcome of a call: "value" (v returned), "failure" (the uniform
\* ValueError, its message the prefix followed by the cause) or "escaped" (an
\* exception the except clause does not catch).  A message is the pair
\* <<fixed text, cause>>.
Prefix == "Nevazeci izraz ili operator: "
NoOutcome == [k |-> "none", v |-> PyNone, cls |-> "", msg |-> <<"", "">>]
ValueOutcome(v) == [k |-> "value", v |-> v, cls |-> "", msg |-> <<"", "">>]
\* the failure, had the message been the fixed text alone
FailureNoCause(e) ==
    [k |-> "failure", v |-> PyNone, cls |-> "ValueError", msg |-> <<Prefix, "">>]
Failure(e) == [k |-> "failure", v |-> PyNone, cls |-> "ValueError", msg |-> <<Prefix, e[2]>>]
Escaped(e) == [k |-> "escaped", v |-> PyNone, cls |-> e[1], msg |-> <<"", e[2]>>]
Unrepresented == [k |-> "range", v |-> PyNone, cls |-> "", msg |-> <<"", "">>]

\* the classes "except Exception" catches, among those raised here
ExceptionSubclasses == {"ValueError", "SyntaxError", "ZeroDivisionError", "TypeError"}

\* the clause, had it been written "except ValueError as e"
ExceptValueError(e) == IF e[1] = "ValueError" THEN Failure(e) ELSE Escaped(e)

\* except Exception as e: raise ValueError(f"Nevazeci izraz ili operator: {e}")
ExceptClause(e) == IF e[1] \in ExceptionSubclasses THEN Failure(e) ELSE Escaped(e)

\* return safe_eval(tree), inside the try
EvaluateTree(t) ==
    TheOne({CASE r.k = "ok" -> ValueOutcome(r.v)
              [] r.k = "raise" -> ExceptClause(r.exc)
              [] OTHER -> Unrepresented :
            r \in {safe_eval(t)}})

evaluate_expression(s) ==
    TheOne({CASE p.k = "raise" -> ExceptClause(p.exc)
              [] p.k = "ok" -> EvaluateTree(p.tree)
              [] OTHER -> Unrepresented :
            p \in {ast_parse(ReplaceCaret(s))}})


\* ------------------------------------------------------------ rendered text
\* A text built by an f-string: its literal parts, the message it embeds (the
\* cause of a failure, or what the algebra library printed) and the number it
\* renders.
Text(lits, cause, num) == [lits |-> lits, cause |-> cause, num |-> num]
EmptyText == Text(<<>>, "", PyNone)
Newline == "\n"
Whitespace == {Space, Newline}

RECURSIVE LStrip(_)
LStrip(s) == IF s # <<>> /\ Head(s) \in Whitespace THEN LStrip(Tail(s)) ELSE s
RECURSIVE RStrip(_)
RStrip(s) ==
    IF s # <<>> /\ s[Len(s)] \in Whitespace THEN RStrip(SubSeq(s, 1, Len(s) - 1)) ELSE s
\* the query, had solve not stripped it
NoStrip(s) == s
\* str.strip()
Strip(s) == RStrip(LStrip(s))

\* str.lower(): "A" is the one upper-case letter of the modelled texts
Lower(s) == [i \in 1..Len(s) |-> IF s[i] = "A" THEN "a" ELSE s[i]]

\* sub in s
Contains(s, sub) ==
    \E i \in 1..(Len(s) - Len(sub) + 1) : SubSeq(s, i, i + Len(sub) - 1) = sub

\* [int(w) for w in "".join(c if (c.isdigit() or c.isspace()) else " "
\*                          for c in t).split() if w.strip()]
RECURSIVE IntOf(_, _, _, _)
IntOf(t, i, j, acc) == IF i >= j THEN acc ELSE IntOf(t, i + 1, j, 10 * acc + DigitValue[t[i]])
RECURSIVE Numbers(_, _, _)
Numbers(t, i, nums) ==
    IF i > Len(t) THEN nums
    ELSE IF t[i] \in Digits THEN
        LET j == RunEnd(t, i, Digits)
        IN Numbers(t, j, Append(nums, IntOf(t, i, j, 0)))
    ELSE Numbers(t, i + 1, nums)

\* f"{n}" of an int of the text heuristic
IntText(n) == Num("int", <<n, 1>>, RZero)
CannotSolve == Text(<<"Ne mogu automatski resiti ovaj tekstualni zadatak (probaj preciznije).">>,
                    "", PyNone)

\* the second test of solve_text_problem on: the area keywords (the alphabet
\* has no s-caron, so "povrsin" stands for both spellings)
AreaProblem(t) ==
    LET nums == Numbers(t, 1, <<>>)
    IN IF (Contains(t, <<"p", "o", "v", "r", "s", "i", "n">>) \/ Contains(t, <<"a", "r", "e", "a">>))
          /\ Len(nums) >= 2
       THEN Text(<<"Povrsina = ">>, "", IntText(nums[1] * nums[2]))
       ELSE CannotSolve

solve_text_problem(text) ==
    LET t == Lower(text)
        nums == Numbers(t, 1, <<>>)
    IN IF (Contains(t, <<"k", "m", "/", "h">>) \/ Contains(t, <<"k", "m", "h">>)
           \/ (Contains(t, <<"k", "m">>) /\ Contains(t, <<"h">>)))
          /\ Len(nums) >= 2
       THEN Text(<<"Rezultat: ", " (km)">>, "", IntText(nums[1] * nums[2]))
       ELSE AreaProblem(t)

\* solve_equation: the texts it can return.  Without an "=" the answer is the
\* error text of the ValueError it raises itself; otherwise it is one of the
\* four forms, decided by the algebra library (not modelled).
solve_equation(equation_str) ==
    IF ~Contains(ReplaceCaret(equation_str), <<"=">>)
    THEN {Text(<<"Greska pri resavanju: ">>, "Jednacina mora sadrzati '='.", PyNone)}
    ELSE {Text(<<"Istinitost: identicno tacno (nema promenljivih).">>, "", PyNone),
          Text(<<"Nema resenja (nije jednako).">>, "", PyNone),
          Text(<<"Resenje: ">>, "sol", PyNone),
          Text(<<"Greska pri resavanju: ">>, "e", PyNone)}

\* solve, lines 222-229: <<the text of result_label, out>> for the outcome of
\* evaluate_expression(query); an exception that is no Exception is not
\* caught here either
SolveExpression(o) ==
    IF o.k = "value" THEN <<Text(<<"Rezultat: ">>, "", o.v), Text(<<>>, "", o.v)>>
    ELSE <<Text(<<"Greska: ", o.msg[1]>>, o.msg[2], PyNone),
           Text(<<"Greska: ", o.msg[1]>>, o.msg[2], PyNone)>>

\* append_history: the line f"[{ts}] ({mode}) {query} -> {result}\n", added
\* at the end of the log
Line(ts, mode, query, result) == [ts |-> ts, mode |-> mode, query |-> query, result |-> result]
\* the log, had the line been inserted at the top
append_history_on_top(log, ts, mode, query, result) == <<Line(ts, mode, query, result)>> \o log
append_history(log, ts, mode, query, result) == Append(log, Line(ts, mode, query, result))

\* insert_demo: the text per mode ("d" stands for the d-stroke of "predje")
DemoExpression ==
    <<"(", "5", " ", "+", " ", "3", ")", " ", "*", " ", "2", " ", "-", " ", "4", "^", "2">>
DemoEquation == <<"3", "*", "x", " ", "-", " ", "6", " ", "=", " ", "1", "2">>
DemoText ==
    <<"A", "u", "t", "o", " ", "i", "d", "e", " ", "6", "0", " ", "k", "m", "/", "h", " ",
      "k", "o", "l", "i", "k", "o", " ", "p", "r", "e", "d", "e", " ", "z", "a", " ", "2", " ",
      "s", "a", "t", "a", "?">>
Demo(mode) ==
    IF mode = "Izraz" THEN DemoExpression
    ELSE IF mode = "Jednacina" THEN DemoEquation
    ELSE DemoText
Modes == {"Izraz", "Jednacina", "Tekstualni"}


\* ------------------------------------------------------------------- state
VARIABLES
    pc,            \* where a call of evaluate_expression stands ("idle": no call)
    arg,           \* the string the call was given
    expr_str,      \* its local expr_str
    tree,          \* its local tree
    exc,           \* the exception in flight, <<class, message>>
    calls,         \* the operator functions called by safe_eval, in order
    outcome,       \* what the call gave its caller
    mode_var,      \* SmartCalcApp: the mode menu
    input_text,    \* the input field
    result_label,  \* the result display
    history,       \* self.history
    history_text,  \* the visible log view
    file,          \* the file save_history wrote: [path, lines]
    dialog,        \* the message box the last handler showed
    clock,         \* what datetime.now() read at the last append_history
    submitted,     \* history variable: <<mode, query, out>> of every solver call
    last           \* history variable: the handler that ran last

evalVars == <<pc, arg, expr_str, tree, exc, calls, outcome>>
appVars == <<mode_var, input_text, history, history_text, file, dialog, clock, submitted, last>>
vars == <<evalVars, appVars, result_label>>

NoTree == Name
NoExc == <<"", "">>
NoFile == [path |-> "", lines |-> <<>>]

AppInit ==
    /\ mode_var = "Izraz"
    /\ input_text = <<>>
    /\ result_label = EmptyText
    /\ history = <<>>
    /\ history_text = <<>>
    /\ file = NoFile
    /\ dialog = "none"
    /\ clock = 0
    /\ submitted = <<>>
    /\ last = "init"

EvalIdle ==
    /\ pc = "idle"
    /\ arg = <<>>
    /\ expr_str = <<>>
    /\ tree = NoTree
    /\ exc = NoExc
    /\ calls = <<>>
    /\ outcome = NoOutcome

\* ------------------------------------------- evaluate_expression, by steps
\* expr_str = expr_str.replace('^', '**')
Replace ==
    /\ pc = "replace"
    /\ expr_str' = ReplaceCaret(expr_str)
    /\ pc' = "parse"
    /\ UNCHANGED <<arg, tree, exc, calls, outcome, appVars, result_label>>

\* tree = ast.parse(expr_str, mode='eval')
Parse ==
    /\ pc = "parse"
    /\ \E p \in {ast_parse(expr_str)} :
          IF p.k = "ok"
          THEN tree' = p.tree /\ exc' = exc /\ pc' = "walk"
          ELSE tree' = tree /\ exc' = p.exc /\ pc' = "except"
    /\ UNCHANGED <<arg, expr_str, calls, outcome, appVars, result_label>>

\* return safe_eval(tree)
Walk ==
    /\ pc = "walk"
    /\ \E r \in {safe_eval(tree)} :
          /\ calls' = r.calls
          /\ IF r.k = "ok"
             THEN outcome' = ValueOutcome(r.v) /\ exc' = exc /\ pc' = "returned"
             ELSE outcome' = outcome /\ exc' = r.exc /\ pc' = "except"
    /\ UNCHANGED <<arg, expr_str, tree, appVars, result_label>>

\* except Exception as e: raise ValueError(...)
Except ==
    /\ pc = "except"
    /\ outcome' = ExceptClause(exc)
    /\ pc' = IF ExceptClause(exc).k = "failure" THEN "raised" ELSE "escaped"
    /\ UNCHANGED <<arg, expr_str, tree, exc, calls, appVars, result_label>>

\* the caller, solve (lines 223-229): the result or the error becomes text;
\* its own "except Exception" catches what evaluate_expression let through
Show ==
    /\ pc \in {"returned", "raised", "escaped"}
    /\ result_label' = SolveExpression(outcome)[1]
    /\ pc' = "done"
    /\ UNCHANGED <<arg, expr_str, tree, exc, calls, outcome, appVars>>

\* ------------------------------------------------------------ input sets
EnumChars == {"0", "2", "n", "(", ")", "*", "/", "-", "^"}
Str2Pow3 == <<"2", "*", "*", "3">>
Str2Caret3 == <<"2", "^", "3">>
Str2Caret2Caret2 == <<"2", "^", "2", "^", "2">>
ExampleStrings ==
    {DemoExpression, Str2Pow3, Str2Caret3, <<"5", "/", "0">>, <<"n", "+", "1">>,
     <<"(", "(", "(">>, <<" ", "1">>, <<"1", " ">>, <<"5", "%", "0">>, DemoEquation, DemoText,
     <<"1", "+", "(", "2", "/", "(", "3", "-", "3", ")", ")">>, Str2Caret2Caret2}
StrInputs ==
    {s \in ExampleStrings \cup UNION {[1..n -> EnumChars] : n \in 0..MaxLen} :
        evaluate_expression(s).k # "range"}

EvalInit == /\ arg \in StrInputs
            /\ expr_str = arg
            /\ pc = "replace"
            /\ tree = NoTree
            /\ exc = NoExc
            /\ calls = <<>>
            /\ outcome = NoOutcome
            /\ AppInit
EvalNext == Replace \/ Parse \/ Walk \/ Except \/ Show
\* a call of evaluate_expression on each input string
SpecEval == EvalInit /\ [][EvalNext]_vars

TreeInit == /\ \E part \in TreeParts : tree \in TreeInputs(part)
            /\ arg = <<>>
            /\ expr_str = <<>>
            /\ pc = "walk"
            /\ exc = NoExc
            /\ calls = <<>>
            /\ outcome = NoOutcome
            /\ AppInit
TreeNext == Walk \/ Except \/ Show
\* a call of evaluate_expression from the point where ast.parse has returned
\* each tree
SpecTree == TreeInit /\ [][TreeNext]_vars

\* ------------------------------------------------------------ SmartCalcApp
\* the user picks a mode in the menu
SelectMode(m) ==
    /\ mode_var' = m
    /\ last' = "select_mode"
    /\ dialog' = "none"
    /\ UNCHANGED <<evalVars, input_text, result_label, history, history_text, file, clock,
                   submitted>>

\* the texts the user types into the input field
TypedTexts ==
    {<<>>, <<" ", Newline>>, <<" ", "5", "/", "0", " ">>}
TypeInput(s) ==
    /\ input_text' = s
    /\ last' = "type"
    /\ dialog' = "none"
    /\ UNCHANGED <<evalVars, mode_var, result_label, history, history_text, file, clock,
                   submitted>>

insert_demo ==
    /\ input_text' = Demo(mode_var)
    /\ last' = "insert_demo"
    /\ dialog' = "none"
    /\ UNCHANGED <<evalVars, mode_var, result_label, history, history_text, file, clock,
                   submitted>>

clear_input ==
    /\ input_text' = <<>>
    /\ result_label' = EmptyText
    /\ last' = "clear_input"
    /\ dialog' = "none"
    /\ UNCHANGED <<evalVars, mode_var, history, history_text, file, clock, submitted>>

\* self.input_text.get("1.0", tk.END): the content and the newline that ends it
TextGet(content) == Append(content, Newline)

\* the texts <<result_label, out>> solve can end with for a non-empty query
SolveResults(mode, query) ==
    IF mode = "Izraz" THEN {SolveExpression(o) : o \in {evaluate_expression(query)}}
    ELSE IF mode = "Jednacina" THEN {<<out, out>> : out \in solve_equation(query)}
    ELSE {<<out, out>> : out \in {solve_text_problem(query)}}

\* datetime.now() at the moments solve reads it
Clock == 0..MaxClock

solve ==
    /\ last' = "solve"
    /\ \E query \in {Strip(TextGet(input_text))} :
          IF query = <<>>
          THEN /\ dialog' = "warning: Unesi zadatak prvo."
               /\ UNCHANGED <<result_label, history, history_text, submitted, clock>>
          ELSE /\ Len(history) < MaxHist
               /\ \E res \in SolveResults(mode_var, query), now \in Clock :
                     /\ clock' = now
                     /\ result_label' = res[1]
                     /\ history' = append_history(history, now, mode_var, query, res[2])
                     /\ history_text' = append_history(history_text, now, mode_var, query, res[2])
                     /\ submitted' = Append(submitted, <<mode_var, query, res[2]>>)
               /\ dialog' = "none"
    /\ UNCHANGED <<evalVars, mode_var, input_text, file>>

\* asksaveasfilename gives "" when the user cancels
Paths == {"", "istorija.txt"}
save_history(path) ==
    /\ last' = "save_history"
    /\ IF history = <<>>
       THEN dialog' = "info: Istorija je prazna." /\ file' = file
       ELSE IF path # ""
       THEN dialog' = "info: Istorija sacuvana" /\ file' = [path |-> path, lines |-> history]
       ELSE dialog' = "none" /\ file' = file
    /\ UNCHANGED <<evalVars, mode_var, input_text, result_label, history, history_text, clock,
                   submitted>>

Init == EvalIdle /\ AppInit
Next ==
    \/ \E m \in Modes : SelectMode(m)
    \/ \E s \in TypedTexts : TypeInput(s)
    \/ insert_demo
    \/ clear_input
    \/ solve
    \/ \E path \in Paths : save_history(path)
\* the application, its handlers run in any order
Spec == Init /\ [][Next]_vars

\* =================================================================== claims
\* the nodes of a tree
RECURSIVE Nodes(_)
Nodes(t) ==
    {t} \cup (CASE t[1] = "Expression" -> Nodes(t[2])
                [] t[1] = "BinOp" -> Nodes(t[3]) \cup Nodes(t[4])
                [] t[1] = "UnaryOp" -> Nodes(t[3])
                [] OTHER -> {})

\* a numeric literal of the language: an integer, floating-point or imaginary
\* number (True, False, None, strings and bytes are literals, not numeric)
IsNumericLiteral(n) == n[1] = "Constant" /\ TypeOf(n[2]) \in {"int", "float", "complex"}
IsAllowedOperation(n) ==
    \/ n[1] = "UnaryOp" /\ n[2] \in UnaryOperators
    \/ n[1] = "BinOp" /\ n[2] \in BinaryOperators
\* the tree has a node that is not a numeric literal nor an allowed operation
HasUnknownConstruct(t) ==
    \E n \in Nodes(t[2]) : ~IsNumericLiteral(n) /\ ~IsAllowedOperation(n)
\* the tree has a node that is neither a literal nor an allowed operation
HasDisallowedNode(t) ==
    \E n \in Nodes(t[2]) : n[1] # "Constant" /\ ~IsAllowedOperation(n)
\* the call of evaluate_expression has ended, one way or another
Ended == pc \in {"returned", "raised", "escaped", "done"}

\* C1: a tree with a node that is not a numeric literal, a unary + or -, or a
\* binary + - * / % ** makes evaluate_expression end in a failure, never in a
\* value.  (Violated by the tree of "True": a boolean literal is returned.)
C1_FailClosed == Ended /\ HasUnknownConstruct(tree) => outcome.k = "failure"

\* C2: a literal whose value is not an integer or a floating-point number
\* (string, boolean, complex, None, bytes) makes evaluate_expression fail.
HasOtherLiteral(t) ==
    \E n \in Nodes(t[2]) : n[1] = "Constant" /\ TypeOf(n[2]) \notin {"int", "float"}
C2_LiteralRestriction == Ended /\ HasOtherLiteral(tree) => outcome.k = "failure"

\* C7: every outcome of evaluate_expression is a failure or a value that is
\* an integer or a floating-point number.
C7_ResultType ==
    Ended => \/ outcome.k = "failure"
             \/ outcome.k = "value" /\ TypeOf(outcome.v) \in {"int", "float"}

\* C10: a tree with a node outside the closed set fails before any operation
\* of the tree is applied, and the failure reported is the one of the
\* disallowed construct.
DisallowedConstructMessages == {"Operator nije dozvoljen.", "Nevazeci izraz."}
C10_ValidationFirst ==
    Ended /\ HasDisallowedNode(tree) =>
        /\ calls = <<>>
        /\ outcome.k = "failure"
        /\ outcome.msg[2] \in DisallowedConstructMessages

\* C4: when a / or % is evaluated with a right operand equal to zero, at any
\* depth, evaluate_expression ends in a failure: no number is returned and
\* the fault does not escape.
ZeroDivisorEvaluated ==
    \E i \in 1..Len(calls) : calls[i][1] \in {"Div", "Mod"} /\ IsZero(calls[i][2][2])
C4_ZeroDivisor == Ended /\ ZeroDivisorEvaluated => outcome.k = "failure"
\* 1 + (2 / (3 - 3)) has failed on the division, two levels down
C4_Witness ==
    /\ pc = "done"
    /\ tree = Expression(NestedZeroTree)
    /\ calls = <<<<"Sub", <<PyInt(3), PyInt(3)>>>>, <<"Div", <<PyInt(2), PyInt(0)>>>>>>
    /\ outcome = Failure(<<"ZeroDivisionError", "division by zero">>)

\* C5: the reference evaluator, on rationals: <<"num", q>>, or the first thing
\* in evaluation order that has no real value: "zero_div" (a zero divisor),
\* "zero_pow_neg" (zero to a negative power), "neg_root" (a negative base to a
\* non-integer power), "irrational" (a root that is not rational)
RefNum(q) == <<"num", q>>
RefUndefined(why) == <<why, RZero>>
RefPow(a, b) ==
    IF RIsInt(b) THEN
        IF b[1] >= 0 THEN RefNum(RPowNat(a, b[1]))
        ELSE IF RIsZero(a) THEN RefUndefined("zero_pow_neg")
        ELSE RefNum(RDiv(ROne, RPowNat(a, -b[1])))
    ELSE IF RIsZero(a) THEN (IF b[1] > 0 THEN RefNum(RZero) ELSE RefUndefined("zero_pow_neg"))
    ELSE IF a[1] < 0 THEN RefUndefined("neg_root")
    ELSE IF b[2] = 2 /\ IsSquare(a[1]) /\ IsSquare(a[2])
    THEN RefNum(IF b[1] >= 0 THEN RPowNat(Norm(SqrtOf(a[1]), SqrtOf(a[2])), b[1])
                ELSE RPowNat(Norm(SqrtOf(a[2]), SqrtOf(a[1])), -b[1]))
    ELSE RefUndefined("irrational")
RefApply(op, a, b) ==
    CASE op = "Add" -> RefNum(RAdd(a, b))
      [] op = "Sub" -> RefNum(RSub(a, b))
      [] op = "Mult" -> RefNum(RMul(a, b))
      [] op = "Div" -> IF RIsZero(b) THEN RefUndefined("zero_div") ELSE RefNum(RDiv(a, b))
      [] op = "Mod" -> IF RIsZero(b) THEN RefUndefined("zero_div")
                       ELSE RefNum(RSub(a, RMul(b, RFloor(RDiv(a, b)))))
      [] op = "Pow" -> RefPow(a, b)
RECURSIVE RefValue(_)
RefValue(t) ==
    CASE t[1] = "Expression" -> RefValue(t[2])
      [] t[1] = "Constant" -> RefNum(Re(t[2]))
      [] t[1] = "UnaryOp" ->
            TheOne({IF x[1] # "num" THEN x
                    ELSE IF t[2] = "USub" THEN RefNum(RNeg(x[2])) ELSE x :
                    x \in {RefValue(t[3])}})
      [] t[1] = "BinOp" ->
            TheOne({IF l[1] # "num" THEN l
                    ELSE TheOne({IF r[1] # "num" THEN r ELSE RefApply(t[2], l[2], r[2]) :
                                 r \in {RefValue(t[4])}}) :
                    l \in {RefValue(t[3])}})

\* the tree is built only from integer literals, unary + - and the six
\* binary operations
IsIntegerTree(t) ==
    \A n \in Nodes(t[2]) : \/ n[1] = "Constant" /\ TypeOf(n[2]) = "int"
                           \/ IsAllowedOperation(n)
\* no / or % of the tree has a right operand whose value is zero
NoZeroDivisor(t) ==
    \A n \in Nodes(t[2]) :
        n[1] = "BinOp" /\ n[2] \in {"Div", "Mod"} => RefValue(n[4]) # RefNum(RZero)
IsTheNumber(o, q) ==
    /\ o.k = "value"
    /\ TypeOf(o.v) \in {"int", "float"}
    /\ Re(o.v) = q
    /\ RIsZero(Im(o.v))

\* C5 as claimed: on a tree of integer literals, unary + - and binary
\* + - * / % ** without a zero divisor or modulus, evaluate_expression returns
\* the number the reference evaluator gives.  (Where a negative base meets a
\* non-integer exponent the number of the host's arithmetic is complex, the
\* matter of C7: the outcome is then only required to be that of C7's case.)
ComplexOrFailure(o) ==
    \/ o.k = "failure"
    \/ o.k = "value" /\ TypeOf(o.v) = "complex"
ZeroPowerMessages ==
    {"0.0 cannot be raised to a negative power", "0.0 to a negative or complex power"}
RECURSIVE PowerNotation(_)
PowerNotation(s) ==
    IF s = <<>> THEN <<>>
    ELSE PowerNotation(SubSeq(s, 1, Len(s) - 1))
         \o (IF s[Len(s)] = "^" THEN <<"*", "*">> ELSE <<s[Len(s)]>>)
C6_CaretIsPower ==
    /\ pc \in {"returned", "raised", "escaped", "done"} =>
          outcome = evaluate_expression(PowerNotation(arg))
    /\ tree # NoTree => \A n \in Nodes(tree) : ~(n[1] = "BinOp" /\ n[2] = "BitXor")
\* 2^3 has given 8, as 2**3 does
C6_Witness ==
    /\ pc = "done"
    /\ arg = Str2Caret3
    /\ tree = Expression(BinOp("Pow", IntLit(2), IntLit(3)))
    /\ outcome = ValueOutcome(PyInt(8))
    /\ evaluate_expression(Str2Pow3) = ValueOutcome(PyInt(8))

\* C8: the history holds one entry per submission with non-empty input, in
\* submission order, each with the mode, the query and the result or error
\* text of its submission; the visible log holds the same entries in the same
\* order; a file written by save_history holds the history as it was at the
\* save, all of it and in order.
C8_HistoryLog ==
    /\ Len(history) = Len(submitted)
    /\ \A i \in 1..Len(history) :
          /\ history[i].mode = submitted[i][1]
          /\ history[i].query = submitted[i][2]
          /\ history[i].result = submitted[i][3]
          /\ history[i].query # <<>>
    /\ history_text = history
    /\ file # NoFile =>
          /\ file.lines # <<>>
          /\ Len(file.lines) <= Len(history)
          /\ file.lines = SubSeq(history, 1, Len(file.lines))
    /\ last = "save_history" /\ dialog = "info: Istorija sacuvana" => file.lines = history
\* a failed submission, then a successful one in another mode, then a save
C8_Witness ==
    /\ last = "save_history"
    /\ dialog = "info: Istorija sacuvana"
    /\ Len(history) = 2
    /\ history[1].mode = "Izraz"
    /\ history[1].query = <<"5", "/", "0">>
    /\ history[1].result = Text(<<"Greska: ", Prefix>>, "division by zero", PyNone)
    /\ history[2].mode = "Tekstualni"
    /\ history[2].query = Strip(DemoText)
    /\ history_text = history
    /\ file.lines = history

\* C9: solve, invoked while the input is empty or only whitespace, shows the
\* warning, calls no solver and leaves the history, the visible log and the
\* result display as they were.
IsBlank(s) == \A i \in 1..Len(s) : s[i] \in Whitespace
C9_EmptyBlocked ==
    [][last' = "solve" /\ IsBlank(input_text) =>
          /\ dialog' = "warning: Unesi zadatak prvo."
          /\ UNCHANGED <<history, history_text, result_label, submitted>>]_vars
\* solve has just warned about a whitespace-only input, an earlier result
\* still shown and logged
C9_Witness ==
    /\ last = "solve"
    /\ dialog = "warning: Unesi zadatak prvo."
    /\ input_text # <<>> /\ IsBlank(input_text)
    /\ Len(history) = 1
    /\ result_label = history[1].result

====
